---- MODULE Spec2Model ----
(***************************************************************************)
(* Circuit-breaker wrapper (src/index.js).                                 *)
(*                                                                         *)
(* The wrapper (getState, emitStateChange, emitWithArgs, run, emitter.run, *)
(* emitter.wrap) is translated from src/index.js.  The engine it drives,   *)
(* `new CircuitBreaker(...)` of the circuit-breaker-js package, is not     *)
(* part of the sources; its window, state machine and facade are modelled  *)
(* from sections 4.1-4.3 of the specification, behind the interface that   *)
(* src/index.js uses: breaker.run(command, fallback), the success/failure  *)
(* functions handed to command, the onCircuitOpen/onCircuitClose hooks     *)
(* that receive the metrics, and the _state field.                         *)
(*                                                                         *)
(* A call is tracked from the moment it reaches the wrapper until it has   *)
(* finished (judged or rejected); the call that finished last is kept.     *)
(*                                                                         *)
(* Granularity: one action per entry into the wrapper from caller code.    *)
(* A worker that completes synchronously is a Run step directly followed   *)
(* by its Done step.  The worker invokes `done` at most once per call      *)
(* (the contract of section 4.3); a worker that never does simply never    *)
(* takes its Done step.  Callbacks and listeners return normally and do    *)
(* not re-enter the breaker before they return.                            *)
(***************************************************************************)
EXTENDS Integers, Sequences, FiniteSets, TLC

\* ------------------------------------------------------------------ bounds
\* MaxCalls: how many calls are made; MaxInFlight: how many of them are in
\* progress at once; MaxTime: the last clock value.
MaxCalls == 3
MaxInFlight == 2
MaxTime == 5

\* WindowSpec: MaxRecords outcomes are recorded, up to time MaxWindowTime.
MaxRecords == 3
MaxWindowTime == 7

\* ------------------------------------------------------- caller's inputs
Service == "S"
Name == "N"

WindowDurations == {4}
NumBucketsChoices == {2}
TimeoutDurations == {2}
ErrorThresholds == {50}
VolumeThresholds == {1, 2}

Workers == {"fn"}
ArgSeqs == {<<>>, <<"a1", "a2">>}
Callbacks == {"cbTrue", "cbFalse"}
DoneArgSeqs == {<<>>, <<"err">>}

CallIds == 1..MaxInFlight

VARIABLES
  options,          \* the options object create() gives to the engine
  breaker,          \* the engine instance: window, state, enteredAt, trialCall
  lastStateChange,  \* closure variable of create(); 0 stands for undefined
  now,              \* the wall clock, Date.now()
  calls,            \* per call in progress: its position, the values bound
                    \* to it, and log: everything observable of the call so
                    \* far, in order (events emitted, worker and callback
                    \* invocations, the outcome recorded)
  finished,         \* the call that finished most recently, with its full log
  history,          \* the state-change events emitted so far, in order
  nCalls,           \* how many calls have reached the wrapper
  recorded          \* WindowSpec only: the outcomes handed to the window so
                    \* far, each with the time it was recorded at

vars == <<options, breaker, lastStateChange, now, calls, finished, history, nCalls,
          recorded>>

\* ------------------------------------------------------------- sequences
Last(s) == s[Len(s)]
Front(s) == SubSeq(s, 1, Len(s) - 1)

\* ===================================================== engine: MetricsWindow
BucketWidth(o) == o.windowDuration \div o.numBuckets

EmptyBucket(t) == [totalCount |-> 0, errorCount |-> 0, startTime |-> t]

NewWindow(o, t) ==
  [buckets |-> [i \in 1..o.numBuckets |-> EmptyBucket(IF i = 1 THEN t ELSE 0)],
   cursor |-> 1,
   lastRotated |-> t]

\* A rotation that clears the bucket the cursor lands on and keeps the
\* buckets it passes over.
rotateClearingLandingOnly(w, o, t) ==
  LET n == o.numBuckets
      width == BucketWidth(o)
      k == (t - w.lastRotated) \div width
      pos(j) == ((w.cursor - 1 + j) % n) + 1
  IN [buckets |-> [i \in 1..n |->
                     IF k > 0 /\ pos(k) = i
                       THEN EmptyBucket(w.lastRotated + k * width)
                       ELSE w.buckets[i]],
      cursor |-> pos(k),
      lastRotated |-> w.lastRotated + k * width]

\* Advance the cursor by the number of whole bucket widths elapsed since the
\* last rotation, clearing every bucket the cursor moves onto.
rotate(w, o, t) ==
  LET n == o.numBuckets
      width == BucketWidth(o)
      k == (t - w.lastRotated) \div width
      pos(j) == ((w.cursor - 1 + j) % n) + 1
      hits(i) == {j \in 1..k : pos(j) = i}
      lastHit(i) == CHOOSE j \in hits(i) : \A j2 \in hits(i) : j2 <= j
  IN [buckets |-> [i \in 1..n |->
                     IF hits(i) # {}
                       THEN EmptyBucket(w.lastRotated + lastHit(i) * width)
                       ELSE w.buckets[i]],
      cursor |-> pos(k),
      lastRotated |-> w.lastRotated + k * width]

record(w, o, t, ok) ==
  LET r == rotate(w, o, t)
      b == r.buckets[r.cursor]
  IN [r EXCEPT !.buckets[r.cursor] =
        [b EXCEPT !.totalCount = b.totalCount + 1,
                  !.errorCount = b.errorCount + (IF ok THEN 0 ELSE 1)]]

recordSuccess(w, o, t) == record(w, o, t, TRUE)
recordFailure(w, o, t) == record(w, o, t, FALSE)

RECURSIVE SumBuckets(_, _, _)
SumBuckets(bs, i, field) ==
  IF i = 0 THEN 0
  ELSE (IF field = "totalCount" THEN bs[i].totalCount ELSE bs[i].errorCount)
       + SumBuckets(bs, i - 1, field)

\* errorPercentage is the quotient errorCount * 100 / totalCount; the model
\* keeps its integer part, which decides every comparison with an integer
\* threshold exactly as the quotient does.
snapshot(w) ==
  LET total == SumBuckets(w.buckets, Len(w.buckets), "totalCount")
      errors == SumBuckets(w.buckets, Len(w.buckets), "errorCount")
  IN [totalCount |-> total,
      errorCount |-> errors,
      errorPercentage |-> IF total > 0 THEN (errors * 100) \div total ELSE 0]

\* ====================================================== engine: StateMachine
CLOSED == "CLOSED"
HALF_OPEN == "HALF_OPEN"
OPEN == "OPEN"

NewBreaker(o, t) ==
  [window |-> NewWindow(o, t), state |-> CLOSED, enteredAt |-> t, trialCall |-> 0]

\* The trip condition without the volume test.
overThresholdIgnoringVolume(m, o) == m.errorPercentage >= o.errorThreshold

overThreshold(m, o) ==
  /\ m.totalCount >= o.volumeThreshold
  /\ m.errorPercentage >= o.errorThreshold

timeoutElapsed(b, o, t) == t - b.enteredAt >= o.timeoutDuration

\* An admission check that lets calls through while HalfOpen.
mayRunAdmittingHalfOpen(b, o, t) ==
  \/ b.state = CLOSED
  \/ b.state = HALF_OPEN
  \/ b.state = OPEN /\ timeoutElapsed(b, o, t)

\* Admission check at the start of a call.
mayRun(b, o, t) ==
  \/ b.state = CLOSED
  \/ b.state = OPEN /\ timeoutElapsed(b, o, t)

\* The state machine after admitting call c: an Open breaker whose timeout
\* has elapsed becomes HalfOpen with c as its trial call.
admit(b, o, t, c) ==
  IF b.state = OPEN
    THEN [b EXCEPT !.state = HALF_OPEN, !.enteredAt = t, !.trialCall = c]
    ELSE b

\* A state machine that lets any call's outcome decide a stay in HalfOpen.
transitionAnyOutcome(b, o, t, c, ok) ==
  LET m == snapshot(b.window)
  IN CASE b.state = CLOSED /\ overThreshold(m, o) ->
            [breaker |-> [b EXCEPT !.state = OPEN, !.enteredAt = t],
             hook |-> "onCircuitOpen", metrics |-> m]
       [] b.state = HALF_OPEN /\ ok ->
            [breaker |-> [b EXCEPT !.state = CLOSED, !.enteredAt = t, !.trialCall = 0],
             hook |-> "onCircuitClose", metrics |-> m]
       [] b.state = HALF_OPEN /\ ~ok ->
            [breaker |-> [b EXCEPT !.state = OPEN, !.enteredAt = t, !.trialCall = 0],
             hook |-> "onCircuitOpen", metrics |-> m]
       [] OTHER ->
            [breaker |-> b, hook |-> "none", metrics |-> m]

\* The state machine re-evaluated after call c's outcome was recorded.
\* hook names the engine callback the transition invokes, if any.
transition(b, o, t, c, ok) ==
  LET m == snapshot(b.window)
  IN CASE b.state = CLOSED /\ overThreshold(m, o) ->
            [breaker |-> [b EXCEPT !.state = OPEN, !.enteredAt = t],
             hook |-> "onCircuitOpen", metrics |-> m]
       [] b.state = HALF_OPEN /\ b.trialCall = c /\ ok ->
            [breaker |-> [b EXCEPT !.state = CLOSED, !.enteredAt = t, !.trialCall = 0],
             hook |-> "onCircuitClose", metrics |-> m]
       [] b.state = HALF_OPEN /\ b.trialCall = c /\ ~ok ->
            [breaker |-> [b EXCEPT !.state = OPEN, !.enteredAt = t, !.trialCall = 0],
             hook |-> "onCircuitOpen", metrics |-> m]
       [] OTHER ->
            [breaker |-> b, hook |-> "none", metrics |-> m]

\* ============================================================ engine: Breaker
attempt(b, o, t, c) ==
  IF mayRun(b, o, t)
    THEN [result |-> "Admitted", breaker |-> admit(b, o, t, c)]
    ELSE [result |-> "Rejected", breaker |-> b]

reportSuccess(b, o, t, c) ==
  transition([b EXCEPT !.window = recordSuccess(b.window, o, t)], o, t, c, TRUE)

reportFailure(b, o, t, c) ==
  transition([b EXCEPT !.window = recordFailure(b.window, o, t)], o, t, c, FALSE)

\* ============================================================== src/index.js
\* The options object create() builds for the engine, lines 60-69.
CircuitBreakerOptions(opts) ==
  [windowDuration |-> opts.windowDuration,
   numBuckets |-> opts.numBuckets,
   timeoutDuration |-> opts.timeoutDuration,
   errorThreshold |-> opts.errorThreshold,
   volumeThreshold |-> opts.volumeThreshold,
   onCircuitOpen |-> "emitStateChange",
   onCircuitClose |-> "emitStateChange"]

getState(b) ==
  CASE b.state = OPEN -> "open"
    [] b.state = HALF_OPEN -> "halfOpen"
    [] b.state = CLOSED -> "closed"

\* The time itself instead of the time since the previous state change.
DurationSinceEpoch(last, t) == IF last # 0 THEN <<t, 1000>> ELSE <<>>

\* duration is (now - lastStateChange) / 1000, kept as <<dividend, divisor>>;
\* <<>> is null.
Duration(last, t) == IF last # 0 THEN <<t - last, 1000>> ELSE <<>>

\* The payload with totalCount and errorCount in each other's place.
StateChangePayloadCountsSwapped(b, metrics, last, t) ==
  [service |-> Service,
   name |-> Name,
   state |-> getState(b),
   duration |-> Duration(last, t),
   time |-> t,
   totalCount |-> metrics.errorCount,
   errorCount |-> metrics.totalCount,
   errorPercentage |-> metrics.errorPercentage]

StateChangePayload(b, metrics, last, t) ==
  [service |-> Service,
   name |-> Name,
   state |-> getState(b),
   duration |-> Duration(last, t),
   time |-> t,
   totalCount |-> metrics.totalCount,
   errorCount |-> metrics.errorCount,
   errorPercentage |-> metrics.errorPercentage]

\* Only the generic event, without the state-named one.
StateChangeEventsGenericOnly(b) == <<"stateChange">>

\* The state-named event ahead of the generic one.
StateChangeEventsNamedFirst(b) == <<getState(b), "stateChange">>

StateChangeEvents(b) == <<"stateChange", getState(b)>>

\* The events emitStateChange emits, for the call c whose outcome caused it.
emitStateChange(b, metrics, last, t, c) ==
  LET evs == StateChangeEvents(b)
  IN [i \in 1..Len(evs) |->
        [kind |-> "emit", event |-> evs[i], call |-> c,
         payload |-> StateChangePayload(b, metrics, last, t)]]

emitWithArgs(b, event, args, c) ==
  [kind |-> "emit", event |-> event, call |-> c,
   payload |-> [service |-> Service, name |-> Name,
                state |-> getState(b), args |-> args]]

WorkerInvoked(c, worker, args) ==
  [kind |-> "worker", call |-> c, worker |-> worker, args |-> args]

CallbackInvoked(c, callback, args, ret) ==
  [kind |-> "callback", call |-> c, callback |-> callback, args |-> args, ret |-> ret]

OutcomeRecorded(c, ok, m) ==
  [kind |-> "record", call |-> c, ok |-> ok, metrics |-> m]

\* What the caller's callback returns for the arguments it is given: cbTrue
\* and cbFalse return their verdict whatever they are given.
CallbackReturn(callback, args) ==
  CASE callback = "cbTrue" -> TRUE
    [] callback = "cbFalse" -> FALSE

\* The message with service and name in each other's place.
ErrorMessageSwapped(service, name) ==
  "Service Unavailable: " \o name \o " (" \o service \o ")"

ErrorMessage(service, name) == "Service Unavailable: " \o service \o " (" \o name \o ")"

\* The command function run() hands to breaker.run (lines 81-92), up to the
\* invocation of the worker.
command(b, args, worker, c) ==
  <<emitWithArgs(b, "run", args, c),
    WorkerInvoked(c, worker, args \o <<"done">>)>>

\* fallback that emits the event and forgets the callback.
fallbackWithoutCallback(b, args, callback, c) ==
  <<emitWithArgs(b, "rejected", args, c)>>

\* fallback that invokes the callback before it emits the event.
fallbackCallbackFirst(b, args, callback, c) ==
  <<CallbackInvoked(c, callback, <<ErrorMessage(Service, Name)>>,
                    CallbackReturn(callback, <<ErrorMessage(Service, Name)>>)),
    emitWithArgs(b, "rejected", args, c)>>

\* The fallback function run() hands to breaker.run (lines 93-96).
fallback(b, args, callback, c) ==
  <<emitWithArgs(b, "rejected", args, c),
    CallbackInvoked(c, callback, <<ErrorMessage(Service, Name)>>,
                    CallbackReturn(callback, <<ErrorMessage(Service, Name)>>))>>

\* run() that runs the command whatever the breaker answers.
runAlwaysCommand(b, o, t, c, worker, args, callback) ==
  LET a == attempt(b, o, t, c)
  IN [breaker |-> a.breaker, pc |-> "inflight",
      emitted |-> command(a.breaker, args, worker, c)]

\* run() that counts a rejected call as a failure.
runRecordsRejection(b, o, t, c, worker, args, callback) ==
  LET a == attempt(b, o, t, c)
  IN IF a.result = "Admitted"
       THEN [breaker |-> a.breaker, pc |-> "inflight",
             emitted |-> command(a.breaker, args, worker, c)]
       ELSE [breaker |-> [a.breaker EXCEPT
                            !.window = recordFailure(a.breaker.window, o, t)],
             pc |-> "rejected",
             emitted |-> fallback(a.breaker, args, callback, c)]

\* run() that records a success as soon as the call is admitted.
runRecordsOnAdmission(b, o, t, c, worker, args, callback) ==
  LET a == attempt(b, o, t, c)
  IN IF a.result = "Admitted"
       THEN [breaker |-> [a.breaker EXCEPT
                            !.window = recordSuccess(a.breaker.window, o, t)],
             pc |-> "inflight",
             emitted |-> command(a.breaker, args, worker, c)]
       ELSE [breaker |-> a.breaker, pc |-> "rejected",
             emitted |-> fallback(a.breaker, args, callback, c)]

\* run(worker, args, callback), lines 80-97: the breaker admits the call and
\* runs command, or rejects it and runs fallback.
run(b, o, t, c, worker, args, callback) ==
  LET a == attempt(b, o, t, c)
  IN IF a.result = "Admitted"
       THEN [breaker |-> a.breaker, pc |-> "inflight",
             emitted |-> command(a.breaker, args, worker, c)]
       ELSE [breaker |-> a.breaker, pc |-> "rejected",
             emitted |-> fallback(a.breaker, args, callback, c)]

\* Argument splitting that leaves the callback among the worker's arguments.
emitterRunArgsKeepingCallback(arguments) ==
  LET args == SubSeq(arguments, 2, Len(arguments))
  IN [worker |-> arguments[1], args |-> args, callback |-> Last(args)]

\* emitter.run(worker, ...args, callback), lines 107-111.
emitterRunArgs(arguments) ==
  LET args == SubSeq(arguments, 2, Len(arguments))
  IN [worker |-> arguments[1], args |-> Front(args), callback |-> Last(args)]

emitterRun(b, o, t, c, arguments) ==
  LET a == emitterRunArgs(arguments)
  IN run(b, o, t, c, a.worker, a.args, a.callback)

\* emitter.wrap(worker, ...args), lines 120-128: the object it returns.
emitterWrap(arguments) ==
  [worker |-> arguments[1], args |-> SubSeq(arguments, 2, Len(arguments))]

wrappedRun(b, o, t, c, wrapped, callback) ==
  run(b, o, t, c, wrapped.worker, wrapped.args, callback)

\* done that reports the opposite of the callback's verdict to the breaker.
doneSwappedReports(b, o, last, t, c, args, callback, doneArgs) ==
  LET ret == CallbackReturn(callback, doneArgs)
      r == IF ret THEN reportFailure(b, o, t, c) ELSE reportSuccess(b, o, t, c)
      changed == r.hook # "none" /\ o[r.hook] = "emitStateChange"
      stateEvents == IF changed THEN emitStateChange(r.breaker, r.metrics, last, t, c)
                     ELSE <<>>
  IN [breaker |-> r.breaker,
      lastStateChange |-> IF changed THEN t ELSE last,
      stateEvents |-> stateEvents,
      emitted |->
        <<CallbackInvoked(c, callback, doneArgs, ret),
          OutcomeRecorded(c, ~ret, r.metrics)>>
        \o stateEvents
        \o <<emitWithArgs(r.breaker, IF ret THEN "success" ELSE "failure", args, c)>>]

\* done that names its final event after the opposite verdict.
doneSwappedEvents(b, o, last, t, c, args, callback, doneArgs) ==
  LET ret == CallbackReturn(callback, doneArgs)
      r == IF ret THEN reportSuccess(b, o, t, c) ELSE reportFailure(b, o, t, c)
      changed == r.hook # "none" /\ o[r.hook] = "emitStateChange"
      stateEvents == IF changed THEN emitStateChange(r.breaker, r.metrics, last, t, c)
                     ELSE <<>>
  IN [breaker |-> r.breaker,
      lastStateChange |-> IF changed THEN t ELSE last,
      stateEvents |-> stateEvents,
      emitted |->
        <<CallbackInvoked(c, callback, doneArgs, ret),
          OutcomeRecorded(c, ret, r.metrics)>>
        \o stateEvents
        \o <<emitWithArgs(r.breaker, IF ret THEN "failure" ELSE "success", args, c)>>]

\* done that tests the callback itself instead of what it returns, and so
\* always takes the success branch.
doneAlwaysSuccess(b, o, last, t, c, args, callback, doneArgs) ==
  LET ret == CallbackReturn(callback, doneArgs)
      r == reportSuccess(b, o, t, c)
      changed == r.hook # "none" /\ o[r.hook] = "emitStateChange"
      stateEvents == IF changed THEN emitStateChange(r.breaker, r.metrics, last, t, c)
                     ELSE <<>>
  IN [breaker |-> r.breaker,
      lastStateChange |-> IF changed THEN t ELSE last,
      stateEvents |-> stateEvents,
      emitted |->
        <<CallbackInvoked(c, callback, doneArgs, ret),
          OutcomeRecorded(c, TRUE, r.metrics)>>
        \o stateEvents
        \o <<emitWithArgs(r.breaker, "success", args, c)>>]

\* done that emits success or failure before it reports to the breaker.
doneEventBeforeReport(b, o, last, t, c, args, callback, doneArgs) ==
  LET ret == CallbackReturn(callback, doneArgs)
      r == IF ret THEN reportSuccess(b, o, t, c) ELSE reportFailure(b, o, t, c)
      changed == r.hook # "none" /\ o[r.hook] = "emitStateChange"
      stateEvents == IF changed THEN emitStateChange(r.breaker, r.metrics, last, t, c)
                     ELSE <<>>
  IN [breaker |-> r.breaker,
      lastStateChange |-> IF changed THEN t ELSE last,
      stateEvents |-> stateEvents,
      emitted |->
        <<CallbackInvoked(c, callback, doneArgs, ret),
          emitWithArgs(b, IF ret THEN "success" ELSE "failure", args, c),
          OutcomeRecorded(c, ret, r.metrics)>>
        \o stateEvents]

\* done that never takes the success branch.
doneAlwaysFailure(b, o, last, t, c, args, callback, doneArgs) ==
  LET ret == CallbackReturn(callback, doneArgs)
      r == reportFailure(b, o, t, c)
      changed == r.hook # "none" /\ o[r.hook] = "emitStateChange"
      stateEvents == IF changed THEN emitStateChange(r.breaker, r.metrics, last, t, c)
                     ELSE <<>>
  IN [breaker |-> r.breaker,
      lastStateChange |-> IF changed THEN t ELSE last,
      stateEvents |-> stateEvents,
      emitted |->
        <<CallbackInvoked(c, callback, doneArgs, ret),
          OutcomeRecorded(c, FALSE, r.metrics)>>
        \o stateEvents
        \o <<emitWithArgs(r.breaker, "failure", args, c)>>]

\* The completion function injected into the worker, lines 83-92.
done(b, o, last, t, c, args, callback, doneArgs) ==
  LET ret == CallbackReturn(callback, doneArgs)
      r == IF ret THEN reportSuccess(b, o, t, c) ELSE reportFailure(b, o, t, c)
      changed == r.hook # "none" /\ o[r.hook] = "emitStateChange"
      stateEvents == IF changed THEN emitStateChange(r.breaker, r.metrics, last, t, c)
                     ELSE <<>>
  IN [breaker |-> r.breaker,
      lastStateChange |-> IF changed THEN t ELSE last,
      stateEvents |-> stateEvents,
      emitted |->
        <<CallbackInvoked(c, callback, doneArgs, ret),
          OutcomeRecorded(c, ret, r.metrics)>>
        \o stateEvents
        \o <<emitWithArgs(r.breaker, IF ret THEN "success" ELSE "failure", args, c)>>]

\* ================================================================== actions
NoCall ==
  [pc |-> "idle", mode |-> "", worker |-> "", args |-> <<>>, callback |-> "", log |-> <<>>]

Init ==
  /\ \E opts \in [windowDuration : WindowDurations,
                  numBuckets : NumBucketsChoices,
                  timeoutDuration : TimeoutDurations,
                  errorThreshold : ErrorThresholds,
                  volumeThreshold : VolumeThresholds] :
       options = CircuitBreakerOptions(opts)
  /\ now = 1
  /\ breaker = NewBreaker(options, now)
  /\ lastStateChange = 0
  /\ calls = [c \in CallIds |-> NoCall]
  /\ finished = [id |-> 0, call |-> NoCall]
  /\ history = <<>>
  /\ nCalls = 0
  /\ recorded = <<>>

\* A new call is tracked under the lowest free id.
NextCall(c) ==
  /\ nCalls < MaxCalls
  /\ calls[c].pc = "idle"
  /\ \A d \in CallIds : d < c => calls[d].pc # "idle"

Tick ==
  /\ now < MaxTime
  /\ now' = now + 1
  /\ UNCHANGED <<options, breaker, lastStateChange, calls, finished, history, nCalls,
                 recorded>>

\* Call c went through run() with result r.
Started(c, mode, worker, args, callback, r) ==
  LET call == [pc |-> r.pc, mode |-> mode, worker |-> worker, args |-> args,
               callback |-> callback, log |-> r.emitted]
  IN /\ breaker' = r.breaker
     /\ IF r.pc = "rejected"
          THEN /\ finished' = [id |-> c, call |-> call]
               /\ calls' = [calls EXCEPT ![c] = NoCall]
          ELSE /\ calls' = [calls EXCEPT ![c] = call]
               /\ finished' = finished
     /\ UNCHANGED <<options, lastStateChange, now, history, recorded>>

Run(c) ==
  /\ NextCall(c)
  /\ nCalls' = nCalls + 1
  /\ \E worker \in Workers, args \in ArgSeqs, callback \in Callbacks :
       Started(c, "run", worker, args, callback,
               emitterRun(breaker, options, now, c, <<worker>> \o args \o <<callback>>))

Wrap(c) ==
  /\ NextCall(c)
  /\ nCalls' = nCalls + 1
  /\ \E worker \in Workers, args \in ArgSeqs :
       LET wrapped == emitterWrap(<<worker>> \o args)
       IN calls' = [calls EXCEPT ![c] = [pc |-> "wrapped", mode |-> "wrap",
                                         worker |-> wrapped.worker,
                                         args |-> wrapped.args, callback |-> "",
                                         log |-> <<>>]]
  /\ UNCHANGED <<options, breaker, lastStateChange, now, finished, history, recorded>>

WrappedRun(c) ==
  /\ calls[c].pc = "wrapped"
  /\ \E callback \in Callbacks :
       Started(c, "wrap", calls[c].worker, calls[c].args, callback,
               wrappedRun(breaker, options, now, c,
                          [worker |-> calls[c].worker, args |-> calls[c].args],
                          callback))
  /\ UNCHANGED nCalls

Done(c) ==
  /\ calls[c].pc = "inflight"
  /\ \E doneArgs \in DoneArgSeqs :
       LET r == done(breaker, options, lastStateChange, now, c,
                     calls[c].args, calls[c].callback, doneArgs)
       IN /\ breaker' = r.breaker
          /\ lastStateChange' = r.lastStateChange
          /\ history' = history \o r.stateEvents
          /\ finished' = [id |-> c,
                      call |-> [calls[c] EXCEPT !.pc = "judged",
                                                !.log = calls[c].log \o r.emitted]]
  /\ calls' = [calls EXCEPT ![c] = NoCall]
  /\ UNCHANGED <<options, now, nCalls, recorded>>

Next ==
  \/ Tick
  \/ \E c \in CallIds : Run(c)
  \/ \E c \in CallIds : Wrap(c)
  \/ \E c \in CallIds : WrappedRun(c)
  \/ \E c \in CallIds : Done(c)

Spec == Init /\ [][Next]_vars

\* -------------------------------------------------- callers that keep trying
\* A caller that finds the breaker not Closed tries again: one more call
\* through run(), outside the budget of MaxCalls.
Retry(c) ==
  /\ breaker.state # CLOSED
  /\ calls[c].pc = "idle"
  /\ \A d \in CallIds : d < c => calls[d].pc # "idle"
  /\ \E worker \in Workers, args \in ArgSeqs, callback \in Callbacks :
       Started(c, "run", worker, args, callback,
               emitterRun(breaker, options, now, c, <<worker>> \o args \o <<callback>>))
  /\ UNCHANGED nCalls

\* LiveSpec draws fewer inputs than Spec: the volume threshold is 1, workers
\* take no arguments and invoke `done` without arguments.
PlainCall(call) ==
  /\ call.args = <<>>
  /\ call.pc = "judged" => call.log[3].args = <<>>

Plain == PlainCall(finished.call) /\ \A c \in CallIds : PlainCall(calls[c])

LiveInit == Init /\ options.volumeThreshold = 1

LiveNext ==
  /\ \/ Next
     \/ \E c \in CallIds : Retry(c)
  /\ Plain'

\* Time keeps advancing (up to MaxTime), calls keep being attempted, and
\* every admitted worker eventually invokes `done`.  The last conjunct is
\* WF_vars(Done(c)) written out: Done(c) is enabled exactly when call c is
\* in flight, and taking it ends that.
Fairness ==
  /\ WF_vars(Tick)
  /\ WF_vars(\E c \in CallIds : Retry(c))
  /\ \A c \in CallIds : WF_vars(WrappedRun(c))
  /\ \A c \in CallIds : []<>(calls[c].pc # "inflight")

LiveSpec == LiveInit /\ [][LiveNext]_vars /\ Fairness

\* ---------------------------------------------------- the window on its own
\* The MetricsWindow of one breaker, driven directly: the clock advances by
\* any amount between two operations, outcomes are recorded, the window is
\* rotated.  <<windowDuration, numBuckets>> ranges over WindowShapes.
WindowShapes == {<<2, 1>>, <<2, 2>>, <<3, 3>>, <<4, 2>>}

WindowInit ==
  /\ \E shape \in WindowShapes :
       options = CircuitBreakerOptions(
                   [windowDuration |-> shape[1], numBuckets |-> shape[2],
                    timeoutDuration |-> 2, errorThreshold |-> 50,
                    volumeThreshold |-> 1])
  /\ now = 1
  /\ breaker = NewBreaker(options, now)
  /\ lastStateChange = 0
  /\ calls = [c \in CallIds |-> NoCall]
  /\ finished = [id |-> 0, call |-> NoCall]
  /\ history = <<>>
  /\ nCalls = 0
  /\ recorded = <<>>

WindowTick ==
  /\ now < MaxWindowTime
  /\ now' = now + 1
  /\ UNCHANGED <<options, breaker, lastStateChange, calls, finished, history, nCalls,
                 recorded>>

WindowRecord(ok) ==
  /\ Len(recorded) < MaxRecords
  /\ breaker' = [breaker EXCEPT !.window = record(breaker.window, options, now, ok)]
  /\ recorded' = Append(recorded, [time |-> now, ok |-> ok])
  /\ UNCHANGED <<options, lastStateChange, now, calls, finished, history, nCalls>>

WindowRotate ==
  /\ rotate(breaker.window, options, now) # breaker.window
  /\ breaker' = [breaker EXCEPT !.window = rotate(breaker.window, options, now)]
  /\ UNCHANGED <<options, lastStateChange, now, calls, finished, history, nCalls,
                 recorded>>

WindowNext ==
  \/ WindowTick
  \/ \E ok \in BOOLEAN : WindowRecord(ok)
  \/ WindowRotate

WindowSpec == WindowInit /\ [][WindowNext]_vars

TypeOK ==
  /\ breaker.state \in {CLOSED, HALF_OPEN, OPEN}
  /\ now \in 1..MaxTime
  /\ nCalls \in 0..MaxCalls
  /\ \A c \in CallIds : calls[c].pc \in {"idle", "wrapped", "inflight"}
  /\ finished.call.pc \in {"idle", "judged", "rejected"}
\* ============================================================== observation
Ongoing == {c \in CallIds : calls[c].pc \in {"wrapped", "inflight"}}

OfKind(log, kind) == SelectSeq(log, LAMBDA e : e.kind = kind)

\* The names of the events in a log, in the order of emission.
EventNames(log) ==
  LET emits == OfKind(log, "emit")
  IN [i \in 1..Len(emits) |-> emits[i].event]

IndexesOf(log, kind) == {i \in 1..Len(log) : log[i].kind = kind}
IndexesOfEvent(log, event) ==
  {i \in 1..Len(log) : log[i].kind = "emit" /\ log[i].event = event}

\* Steps, told apart by what they do to the calls.
WrapStep == \E c \in CallIds : calls[c].pc # "wrapped" /\ calls'[c].pc = "wrapped"
RunStep == nCalls' = nCalls + 1 /\ ~WrapStep
WrappedRunStep == \E c \in CallIds : calls[c].pc = "wrapped" /\ calls'[c].pc # "wrapped"
AttemptStep == RunStep \/ WrappedRunStep
AdmittedStep == \E c \in CallIds : calls[c].pc # "inflight" /\ calls'[c].pc = "inflight"
RejectedStep == AttemptStep /\ ~AdmittedStep
DoneStep(c) == calls[c].pc = "inflight" /\ calls'[c].pc # "inflight"

\* =================================================================== claims

C5_RejectionChangesNothing ==
  [][RejectedStep =>
       /\ breaker' = breaker
       /\ snapshot(breaker'.window) = snapshot(breaker.window)
       /\ getState(breaker') = getState(breaker)
       /\ history' = history
       /\ finished'.call.pc = "rejected"
       /\ IndexesOf(finished'.call.log, "worker") = {}
       /\ IndexesOf(finished'.call.log, "record") = {}]_vars

C5_Witness ==
  /\ finished.call.pc = "rejected"
  /\ snapshot(breaker.window).totalCount > 0
  /\ IndexesOf(finished.call.log, "worker") = {}

\* C6: the only event of a rejected call is one `rejected` event, and its
\* callback receives the error "Service Unavailable: <service> (<name>)".
C6_RejectedEventAndError ==
  finished.call.pc = "rejected" =>
    /\ EventNames(finished.call.log) = <<"rejected">>
    /\ \A i \in IndexesOf(finished.call.log, "emit") :
         /\ finished.call.log[i].payload.service = "S"
         /\ finished.call.log[i].payload.name = "N"
         /\ finished.call.log[i].payload.args = finished.call.args
    /\ \A i \in IndexesOf(finished.call.log, "callback") :
         finished.call.log[i].args = <<"Service Unavailable: S (N)">>

C6_Witness ==
  /\ finished.call.pc = "rejected"
  /\ EventNames(finished.call.log) = <<"rejected">>
  /\ finished.call.args = <<"a1", "a2">>

\* C9: on a rejected call the `rejected` event is emitted before the
\* callback is invoked with the error.
C9_RejectedBeforeCallback ==
  finished.call.pc = "rejected" =>
    /\ IndexesOfEvent(finished.call.log, "rejected") # {}
    /\ \A j \in IndexesOf(finished.call.log, "callback") :
         \E i \in IndexesOfEvent(finished.call.log, "rejected") : i < j

C9_Witness ==
  /\ finished.call.pc = "rejected"
  /\ finished.call.mode = "run"
  /\ IndexesOf(finished.call.log, "callback") = {2}
\* What the caller's callback returned in a finished call.
Verdict(call) ==
  LET i == CHOOSE i \in IndexesOf(call.log, "callback") : TRUE
  IN call.log[i].ret

\* The breaker's last state-change event says it opened.
LastEventIsOpen == history # <<>> /\ Last(history).event = "open"
OpenedAt == Last(history).payload.time

\* The attempt of this step is rejected and its worker is not invoked.
RejectedWithoutWorker ==
  /\ RejectedStep
  /\ finished'.call.pc = "rejected"
  /\ IndexesOf(finished'.call.log, "worker") = {}

C2_RejectedUntilTimeout ==
  (LastEventIsOpen /\ now - OpenedAt < options.timeoutDuration /\ AttemptStep)
    => RejectedWithoutWorker

C3_ClosedBelowVolume ==
  /\ [](IF history = <<>>
          THEN breaker.state = CLOSED /\ finished.call.pc # "rejected"
          ELSE /\ history[1].payload.state = "open"
               /\ history[1].payload.totalCount >= options.volumeThreshold)
  /\ [][(/\ breaker.state = CLOSED
          /\ snapshot(breaker'.window).totalCount < options.volumeThreshold)
           => (breaker'.state = CLOSED /\ ~RejectedStep)]_vars

C3_Witness ==
  /\ breaker.state = CLOSED
  /\ history = <<>>
  /\ finished.call.pc = "judged"
  /\ snapshot(breaker.window).totalCount = 1
  /\ snapshot(breaker.window).errorPercentage = 100
  /\ options.volumeThreshold = 2

\* The call that started in this step is c, and it is the trial call.
TrialAdmitted(c) ==
  /\ calls[c].pc # "inflight"
  /\ calls'[c].pc = "inflight"
  /\ IndexesOf(calls'[c].log, "worker") # {}
  /\ breaker'.state = HALF_OPEN
  /\ breaker'.trialCall = c

C7_RunThenVerdictEvent ==
  /\ \A c \in Ongoing : calls[c].pc = "inflight" =>
       /\ EventNames(calls[c].log) = <<"run">>
       /\ \A j \in IndexesOf(calls[c].log, "worker") :
            \E i \in IndexesOfEvent(calls[c].log, "run") : i < j
  /\ finished.call.pc = "judged" =>
       LET log == finished.call.log
           verdicts == IndexesOfEvent(log, "success") \cup IndexesOfEvent(log, "failure")
       IN /\ Cardinality(IndexesOfEvent(log, "run")) = 1
          /\ Cardinality(IndexesOf(log, "worker")) = 1
          /\ \A j \in IndexesOf(log, "worker") :
               \E i \in IndexesOfEvent(log, "run") : i < j
          /\ Cardinality(verdicts) = 1
          /\ \A i \in verdicts :
               /\ \A j \in IndexesOf(log, "callback") \cup IndexesOf(log, "worker") : j < i
               /\ log[i].event = "success" <=> Verdict(finished.call)
               /\ log[i].event = "success" <=> finished.call.callback = "cbTrue"
          /\ IndexesOfEvent(log, "stateChange") = {} =>
               EventNames(log) = <<"run", IF Verdict(finished.call) THEN "success" ELSE "failure">>

C7_Witness ==
  /\ finished.call.pc = "judged"
  /\ EventNames(finished.call.log) = <<"run", "success">>
  /\ \E i \in IndexesOf(finished.call.log, "callback") :
       finished.call.log[i].args = <<"err">>

\* C8: wrap(worker, a1..aN).run(callback) and run(worker, a1..aN, callback)
\* do the same in every state: the worker gets a1..aN followed by done, the
\* same events are emitted and the breaker is left the same; wrap itself
\* changes nothing and emits nothing.
C8_WrapEquivalentToRun ==
  /\ [](\A c \in CallIds, worker \in Workers, args \in ArgSeqs, callback \in Callbacks :
          LET viaRun == emitterRun(breaker, options, now, c,
                                   <<worker>> \o args \o <<callback>>)
              viaWrap == wrappedRun(breaker, options, now, c,
                                    emitterWrap(<<worker>> \o args), callback)
          IN /\ viaRun = viaWrap
             /\ \A i \in IndexesOf(viaWrap.emitted, "worker") :
                  viaWrap.emitted[i].args = args \o <<"done">>
             /\ \A i \in IndexesOf(viaRun.emitted, "emit") :
                  viaRun.emitted[i].payload.args = args)
  /\ [][WrapStep =>
          /\ UNCHANGED <<breaker, lastStateChange, history, finished>>
          /\ \A c \in CallIds :
               calls'[c].pc = "wrapped" /\ calls[c].pc # "wrapped" => calls'[c].log = <<>>]_vars

C8_Witness ==
  /\ finished.call.pc = "judged"
  /\ finished.call.mode = "wrap"
  /\ finished.call.args = <<"a1", "a2">>
  /\ \E i \in IndexesOf(finished.call.log, "worker") :
       finished.call.log[i].args = <<"a1", "a2", "done">>
  /\ \E c \in CallIds : calls[c].pc = "inflight" /\ calls[c].mode = "run"

\* C10: when a call is rejected, `stateChange` and `open` have been emitted
\* before and no `closed` has been emitted since the latest `open`; a
\* breaker that never emitted `open` rejects nothing.
C10_RejectedOnlyAfterOpen ==
  finished.call.pc = "rejected" =>
    /\ \E i \in 1..Len(history) : history[i].event = "stateChange"
    /\ \E i \in 1..Len(history) :
         /\ history[i].event = "open"
         /\ \A j \in (i + 1)..Len(history) : history[j].event # "closed"

C10_Witness ==
  /\ finished.call.pc = "rejected"
  /\ Len(history) = 4
  /\ history[2].event = "open"
  /\ history[4].event = "open"

\* The breaker enters Open or Closed in this step.
EntersOpenOrClosed ==
  /\ breaker'.state # breaker.state
  /\ breaker'.state \in {OPEN, CLOSED}

\* C11: every transition into Open or into Closed emits exactly two events,
\* back to back and with the same payload: `stateChange` first, then `open`
\* or `closed`; the payload's state is the state entered.  Nothing else
\* emits a state-change event.
C11_StateChangePair ==
  [][/\ EntersOpenOrClosed =>
          /\ Len(history') = Len(history) + 2
          /\ SubSeq(history', 1, Len(history)) = history
          /\ history'[Len(history) + 1].event = "stateChange"
          /\ history'[Len(history) + 2].event = getState(breaker')
          /\ history'[Len(history) + 2].event \in {"open", "closed"}
          /\ history'[Len(history) + 1].payload = history'[Len(history) + 2].payload
          /\ history'[Len(history) + 1].payload.state = getState(breaker')
          /\ LET log == finished'.call.log
             IN \E i \in 1..(Len(log) - 1) :
                  /\ log[i] = history'[Len(history) + 1]
                  /\ log[i + 1] = history'[Len(history) + 2]
                  /\ IndexesOfEvent(log, "stateChange") = {i}
                  /\ IndexesOfEvent(log, "open") \cup IndexesOfEvent(log, "closed") = {i + 1}
     /\ ~EntersOpenOrClosed => history' = history]_vars

C11_Witness ==
  /\ Len(history) = 4
  /\ history[1].event = "stateChange" /\ history[2].event = "open"
  /\ history[3].event = "stateChange" /\ history[4].event = "closed"
  /\ history[3].payload = history[4].payload
  /\ breaker.state = CLOSED

MetricsInRange(m) ==
  /\ m.errorPercentage >= 0
  /\ m.errorPercentage <= 100
  /\ m.totalCount = 0 => m.errorPercentage = 0
  /\ m.errorCount >= 0
  /\ m.errorCount <= m.totalCount
  /\ m.totalCount > 0 =>
       /\ m.errorPercentage * m.totalCount <= m.errorCount * 100
       /\ (m.errorPercentage + 1) * m.totalCount > m.errorCount * 100

\* C12: errorPercentage is within 0..100 and is 0 when totalCount is 0, and
\* errorCount never exceeds totalCount: in the window's snapshot, in each
\* bucket, and in the metrics of every state-change event.
C12_ErrorPercentageInRange ==
  /\ MetricsInRange(snapshot(breaker.window))
  /\ \A i \in 1..Len(breaker.window.buckets) :
       /\ breaker.window.buckets[i].errorCount >= 0
       /\ breaker.window.buckets[i].errorCount <= breaker.window.buckets[i].totalCount
  /\ \A i \in 1..Len(history) : MetricsInRange(history[i].payload)

C12_Witness ==
  /\ history # <<>>
  /\ history[1].payload.totalCount = 2
  /\ history[1].payload.errorCount = 1
  /\ history[1].payload.errorPercentage = 50
  /\ snapshot(breaker.window).totalCount = 1
  /\ snapshot(breaker.window).errorPercentage = 100

SomeDoneStep == \E c \in CallIds : DoneStep(c)

\* C13: a verdict is recorded exactly once, in the bucket that is current
\* after rotation: false adds 1 to its totalCount and its errorCount, true
\* adds 1 to its totalCount only; no other step (admission, rejection, wrap,
\* the clock) increases a count.
C13_RecordedExactlyOnce ==
  [][/\ SomeDoneStep =>
          LET w == rotate(breaker.window, options, now)
              w2 == breaker'.window
              v == Verdict(finished'.call)
              records == IndexesOf(finished'.call.log, "record")
          IN /\ w2.cursor = w.cursor
             /\ \A i \in 1..Len(w.buckets) :
                  /\ w2.buckets[i].totalCount =
                       w.buckets[i].totalCount + (IF i = w.cursor THEN 1 ELSE 0)
                  /\ w2.buckets[i].errorCount =
                       w.buckets[i].errorCount + (IF i = w.cursor /\ ~v THEN 1 ELSE 0)
             /\ Cardinality(records) = 1
             /\ \A i \in records : finished'.call.log[i].ok = v
     /\ ~SomeDoneStep =>
          /\ \A i \in 1..Len(breaker.window.buckets) :
               /\ breaker'.window.buckets[i].totalCount <= breaker.window.buckets[i].totalCount
               /\ breaker'.window.buckets[i].errorCount <= breaker.window.buckets[i].errorCount
          /\ snapshot(breaker'.window).totalCount <= snapshot(breaker.window).totalCount
          /\ snapshot(breaker'.window).errorCount <= snapshot(breaker.window).errorCount
          /\ \A c \in CallIds : IndexesOf(calls'[c].log, "record") = {}]_vars

C13_Witness ==
  /\ finished.call.pc = "judged"
  /\ ~Verdict(finished.call)
  /\ snapshot(breaker.window).totalCount = 2
  /\ snapshot(breaker.window).errorCount = 1

\* C14: duration is null (<<>>) on the breaker's first state change and on no
\* other; on every later one it is the time since the previous state-change
\* event, open or closed, in seconds (milliseconds over 1000).
C14_DurationSincePreviousChange ==
  \A i \in 1..Len(history) :
    IF i <= 2
      THEN history[i].payload.duration = <<>>
      ELSE LET prev == IF i % 2 = 1 THEN i - 1 ELSE i - 2
           IN /\ history[i].payload.duration # <<>>
              /\ history[i].payload.duration =
                   <<history[i].payload.time - history[prev].payload.time, 1000>>

C14_Witness ==
  /\ Len(history) = 6
  /\ history[2].event = "open"
  /\ history[4].event = "closed"
  /\ history[4].payload.duration = <<2, 1000>>
  /\ history[6].event = "open"
  /\ history[6].payload.duration = <<0, 1000>>

\* What a log entry is: its kind, and for an event its name.
EntryName(e) == IF e.kind = "emit" THEN e.event ELSE e.kind

\* C15: the steps of an admitted call come in this order: `run` event,
\* worker, callback, outcome recorded, the state-change events it causes,
\* and last `success` or `failure`, whose state field is the breaker's state
\* after the transition.
C15_LogInOrder ==
  /\ \A c \in Ongoing : calls[c].pc = "inflight" =>
       [i \in 1..Len(calls[c].log) |-> EntryName(calls[c].log[i])] = <<"run", "worker">>
  /\ finished.call.pc = "judged" =>
       LET log == finished.call.log
           names == [i \in 1..Len(log) |-> EntryName(log[i])]
           final == IF Verdict(finished.call) THEN "success" ELSE "failure"
       IN /\ \/ names = <<"run", "worker", "callback", "record", final>>
             \/ names = <<"run", "worker", "callback", "record", "stateChange", "open", final>>
             \/ names = <<"run", "worker", "callback", "record", "stateChange", "closed", final>>
          /\ Len(log) = 7 =>
               /\ log[7].payload.state = log[6].payload.state
               /\ log[7].payload.state = log[6].event
               /\ log[5].payload.totalCount = log[4].metrics.totalCount
               /\ log[5].payload.errorCount = log[4].metrics.errorCount

C15_OrderOfAdmittedCall ==
  /\ []C15_LogInOrder
  /\ [][SomeDoneStep =>
          Last(finished'.call.log).payload.state = getState(breaker')]_vars

C15_Witness ==
  /\ finished.call.pc = "judged"
  /\ EventNames(finished.call.log) = <<"run", "stateChange", "open", "failure">>
  /\ finished.call.log[1].payload.state = "closed"
  /\ finished.call.log[7].payload.state = "open"

\* The calls in flight that were admitted while HalfOpen: their `run` event
\* says so.
TrialsInFlight ==
  {c \in CallIds : calls[c].pc = "inflight" /\ calls[c].log[1].payload.state = "halfOpen"}

\* C16: while the breaker is HalfOpen exactly one call admitted in that stay
\* is in flight, the trial call, and every call attempted meanwhile is
\* rejected without reaching its worker.
C16_SingleTrialWhileHalfOpen ==
  /\ [](/\ breaker.state = HALF_OPEN =>
             TrialsInFlight = {breaker.trialCall}
        /\ breaker.state # HALF_OPEN => TrialsInFlight = {})
  /\ [][(breaker.state = HALF_OPEN /\ AttemptStep) =>
          /\ RejectedWithoutWorker
          /\ breaker' = breaker
          /\ \A c \in CallIds : calls'[c].pc = "inflight" => calls[c].pc = "inflight"]_vars

C16_Witness ==
  /\ breaker.state = HALF_OPEN
  /\ Cardinality(TrialsInFlight) = 1
  /\ finished.call.pc = "rejected"
  /\ finished.call.log[1].payload.state = "halfOpen"

\* What an admitted call has done as long as its worker has not invoked
\* `done`: the `run` event and the invocation of the worker.
OnlyRunSoFar(call) ==
  /\ Len(call.log) = 2
  /\ call.log[1].kind = "emit" /\ call.log[1].event = "run"
  /\ call.log[2].kind = "worker"

\* C17: as long as the worker of an admitted call has not invoked `done`,
\* the call has emitted its `run` event and nothing else, its callback has not
\* been invoked, and no step other than an invocation of `done` touches it,
\* adds to a count, emits a state-change event or moves the breaker (except
\* for the admission of a trial call, Open to HalfOpen).
C17_NoDoneNoEffect ==
  /\ [](\A c \in CallIds : calls[c].pc = "inflight" => OnlyRunSoFar(calls[c]))
  /\ [][/\ \A c \in CallIds :
             (calls[c].pc = "inflight" /\ ~DoneStep(c)) => calls'[c] = calls[c]
        /\ ~SomeDoneStep =>
             /\ history' = history
             /\ lastStateChange' = lastStateChange
             /\ snapshot(breaker'.window).totalCount <= snapshot(breaker.window).totalCount
             /\ snapshot(breaker'.window).errorCount <= snapshot(breaker.window).errorCount
             /\ breaker'.state # breaker.state =>
                  /\ AdmittedStep
                  /\ breaker.state = OPEN /\ breaker'.state = HALF_OPEN]_vars

\* A call admitted at the start is still in flight at the end of time, after
\* every other call has come and gone.
C17_Witness ==
  /\ now = MaxTime
  /\ nCalls = MaxCalls
  /\ calls[1].pc = "inflight"
  /\ calls[1].log[1].payload.state = "closed"
  /\ calls[2].pc = "idle"
  /\ finished.id = 2
  /\ finished.call.pc = "rejected"
  /\ breaker.state = OPEN
  /\ snapshot(breaker.window).totalCount <= 1

\* The step leaves the state machine and the state-change events alone.
StateMachineUntouched ==
  /\ breaker'.state = breaker.state
  /\ breaker'.enteredAt = breaker.enteredAt
  /\ breaker'.trialCall = breaker.trialCall
  /\ history' = history
  /\ lastStateChange' = lastStateChange
  /\ IndexesOfEvent(finished'.call.log, "stateChange") = {}
  /\ IndexesOfEvent(finished'.call.log, "open") = {}
  /\ IndexesOfEvent(finished'.call.log, "closed") = {}

\* C19: an outcome reported while the breaker is Open leaves it Open with
\* the same enteredAt and emits no state-change event; an outcome reported
\* while it is HalfOpen by a call other than the trial call does the same, and
\* the breaker leaves HalfOpen only when the trial call reports.
C19_OutOfTurnOutcome ==
  [][/\ \A c \in CallIds : DoneStep(c) =>
          /\ breaker.state = OPEN => StateMachineUntouched
          /\ (breaker.state = HALF_OPEN /\ c # breaker.trialCall) =>
               StateMachineUntouched
     /\ (breaker.state = HALF_OPEN /\ breaker'.state # HALF_OPEN) =>
          DoneStep(breaker.trialCall)]_vars

\* A call admitted while Closed has just reported while the breaker was Open.
C19_Witness ==
  /\ finished.call.pc = "judged"
  /\ finished.call.log[1].payload.state = "closed"
  /\ Last(finished.call.log).payload.state = "open"
  /\ Len(finished.call.log) = 5
  /\ breaker.state = OPEN
  /\ Len(history) = 2

\* A call admitted while Closed has just reported while a trial was in flight.
ReportedDuringTrial ==
  /\ finished.call.pc = "judged"
  /\ finished.call.log[1].payload.state = "closed"
  /\ Last(finished.call.log).payload.state = "halfOpen"
  /\ breaker.state = HALF_OPEN
  /\ Cardinality(TrialsInFlight) = 1

\* The outcomes, or the failures, recorded less than windowDuration ago.
Recent(onlyErrors) ==
  {i \in 1..Len(recorded) :
     /\ now - recorded[i].time < options.windowDuration
     /\ onlyErrors => ~recorded[i].ok}

RotatedNow == rotate(breaker.window, options, now)

\* C18 (WindowSpec): the window rotated to `now` counts no outcome recorded
\* windowDuration or more ago; rotating it to `now` once more changes
\* nothing; and right after an outcome is recorded windowDuration or more
\* after the one before it, totalCount is 1.
C18_RotationEvicts ==
  /\ [](/\ snapshot(RotatedNow).totalCount <= Cardinality(Recent(FALSE))
        /\ snapshot(RotatedNow).errorCount <= Cardinality(Recent(TRUE))
        /\ rotate(RotatedNow, options, now) = RotatedNow)
  /\ [][(/\ recorded # <<>>
         /\ Len(recorded') = Len(recorded) + 1
         /\ now - Last(recorded).time >= options.windowDuration) =>
          snapshot(breaker'.window).totalCount = 1]_vars

\* Two outcomes sit in different buckets, more than a whole window goes by,
\* and a third outcome has just been recorded.
C18_Witness ==
  /\ options.numBuckets = 2
  /\ Len(recorded) = 3
  /\ recorded[1].time < recorded[2].time
  /\ recorded[2].time - recorded[1].time < options.windowDuration
  /\ recorded[3].time - recorded[2].time > options.windowDuration
  /\ recorded[3].time = now
  /\ snapshot(breaker.window).totalCount = 1

\* The callback of the trial call in flight returns true.
TrialWillSucceed ==
  /\ breaker.state = HALF_OPEN
  /\ calls[breaker.trialCall].pc = "inflight"
  /\ calls[breaker.trialCall].callback = "cbTrue"

ClosedEmitted ==
  /\ breaker.state = CLOSED
  /\ history # <<>>
  /\ Last(history).event = "closed"

\* C20 (LiveSpec): an Open breaker whose timeout ends within the time
\* modelled eventually admits a call, the trial; and a breaker whose trial
\* call has a callback that returns true eventually is Closed, having
\* emitted `closed`.
C20_NotStuckRejecting ==
  /\ (breaker.state = OPEN /\ breaker.enteredAt + options.timeoutDuration <= MaxTime)
       ~> (breaker.state = HALF_OPEN /\ TrialsInFlight = {breaker.trialCall})
  /\ TrialWillSucceed ~> ClosedEmitted

\* The breaker opened, a first trial failed, a second one closed it, with a
\* single call from the budget.
C20_Witness ==
  /\ ClosedEmitted
  /\ nCalls = 1
  /\ Len(history) = 6
  /\ history[1].event = "stateChange" /\ history[2].event = "open"
  /\ history[4].event = "open"
  /\ finished.call.log[1].payload.state = "halfOpen"
====
